---- MODULE Spec2Model ----
(***************************************************************************)
(* Traffic-telemetry pipeline of the control API: the ingestion handler    *)
(* (worker.py, ingest_traffic), the endpoint registry and hourly metric    *)
(* buckets it maintains (models.py), and the endpoint analysis that reads  *)
(* them (metrics.py, endpoint_analysis).                                   *)
(*                                                                         *)
(* Each request runs in its own database session.  A session's queries     *)
(* read the committed tables; what it adds or changes stays private to     *)
(* the session until db.commit() applies it in one step, and db.rollback() *)
(* drops it.  The tables carry no uniqueness constraint beyond the primary *)
(* key (models.py declares none on endpoints or metric_buckets).           *)
(*                                                                         *)
(* Rows are modelled as the handlers write and read them: a traffic_logs   *)
(* row carries every keyword ingest_traffic passes to TrafficLog(...) and  *)
(* the endpoint_id column endpoint_analysis selects, which ingestion never *)
(* sets.  Strings that the code takes apart (paths, patterns) are          *)
(* sequences of one-character strings.  Times are minutes.                 *)
(***************************************************************************)
EXTENDS Integers, Sequences, FiniteSets, TLC

VARIABLES
    clock,       \* wall clock, in minutes (datetime.utcnow() / SQL now())
    projects,    \* table projects
    api_keys,    \* table api_keys
    endpoints,   \* table endpoints (committed rows)
    buckets,     \* table metric_buckets (committed rows)
    logs,        \* table traffic_logs (committed rows)
    sess,        \* per request slot: the handler's position and its session
    out,         \* the response produced by the last step, None if none
    ingested,    \* history: the calls that committed, with their key and hour
    calls,       \* number of ingestion requests received
    ticks,       \* number of clock advances
    analysis,    \* the endpoint analysis in progress, NoAnalysis if none
    domains,     \* table domains
    issued,      \* number of API keys generated so far
    revoked,     \* history: the hashes of the keys revoke_api_key has revoked
    args         \* the arguments of the function under evaluation, if any

vars == <<clock, projects, api_keys, endpoints, buckets, logs, sess, out,
          ingested, calls, ticks, analysis, domains, issued, revoked, args>>

db == <<endpoints, buckets, logs>>

----------------------------------------------------------------------------
\* Bounds of the model

NumSessions == 2
MaxCalls == 2
MaxTicks == 1

Sessions == 1..NumSessions

None == "None"

\* an optional number that is absent (Optional[...] = None)
NoValue == 0 - 1

\* an optional string that is absent or empty
NoString == <<>>

----------------------------------------------------------------------------
\* Strings as sequences of characters

Digits == {"0", "1", "2", "3", "4", "5", "6", "7", "8", "9"}

HexChars == Digits \cup {"a", "b", "c", "d", "e", "f", "A", "B", "C", "D", "E", "F"}

IdPlaceholder == <<":", "i", "d">>

UuidLen == 36
ObjectIdLen == 24

\* UUID_REGEX matches at position i of s
UuidAt(s, i) ==
    /\ i + UuidLen - 1 <= Len(s)
    /\ \A k \in 0..(UuidLen - 1) :
          IF k \in {8, 13, 18, 23} THEN s[i + k] = "-" ELSE s[i + k] \in HexChars

\* OBJECT_ID_REGEX matches at position i of s
ObjectIdAt(s, i) ==
    /\ i + ObjectIdLen - 1 <= Len(s)
    /\ \A k \in 0..(ObjectIdLen - 1) : s[i + k] \in HexChars

\* first position at or after i that holds no digit
RECURSIVE DigitsEnd(_, _)
DigitsEnd(s, i) ==
    IF i <= Len(s) /\ s[i] \in Digits THEN DigitsEnd(s, i + 1) ELSE i

\* r'/(\d+)(?=/|$)' matches at position i of s
NumericAt(s, i) ==
    /\ s[i] = "/"
    /\ DigitsEnd(s, i + 1) > i + 1
    /\ \/ DigitsEnd(s, i + 1) > Len(s)
       \/ s[DigitsEnd(s, i + 1)] = "/"

\* the least position of a set of match positions, 0 if there is none
Leftmost(found) ==
    IF found = {} THEN 0 ELSE CHOOSE j \in found : \A k \in found : j <= k

\* position of the leftmost match of each pattern in s at or after i
FirstUuid(s, i) == Leftmost({j \in i..Len(s) : UuidAt(s, j)})
FirstObjectId(s, i) == Leftmost({j \in i..Len(s) : ObjectIdAt(s, j)})
FirstNumeric(s, i) == Leftmost({j \in i..Len(s) : NumericAt(s, j)})

\* UUID_REGEX.sub(':id', s), scanning from position i: the leftmost match is
\* replaced and the scan resumes after it
RECURSIVE SubUuid(_, _)
SubUuid(s, i) ==
    LET j == FirstUuid(s, i)
    IN  IF j = 0 THEN SubSeq(s, i, Len(s))
        ELSE (SubSeq(s, i, j - 1) \o IdPlaceholder) \o SubUuid(s, j + UuidLen)

\* OBJECT_ID_REGEX.sub(':id', s), scanning from position i
RECURSIVE SubObjectId(_, _)
SubObjectId(s, i) ==
    LET j == FirstObjectId(s, i)
    IN  IF j = 0 THEN SubSeq(s, i, Len(s))
        ELSE (SubSeq(s, i, j - 1) \o IdPlaceholder)
                \o SubObjectId(s, j + ObjectIdLen)

\* re.sub(r'/(\d+)(?=/|$)', '/:id', s), scanning from position i
RECURSIVE SubNumeric(_, _)
SubNumeric(s, i) ==
    LET j == FirstNumeric(s, i)
    IN  IF j = 0 THEN SubSeq(s, i, Len(s))
        ELSE (SubSeq(s, i, j) \o IdPlaceholder)
                \o SubNumeric(s, DigitsEnd(s, j + 1))

\* utils.normalize_path
normalize_path(path) == SubNumeric(SubObjectId(SubUuid(path, 1), 1), 1)


\* str.strip("/"): drop the slashes at both ends
RECURSIVE StripSlashes(_)
StripSlashes(s) ==
    IF s = <<>> THEN s
    ELSE IF Head(s) = "/" THEN StripSlashes(Tail(s))
    ELSE IF s[Len(s)] = "/" THEN StripSlashes(SubSeq(s, 1, Len(s) - 1))
    ELSE s

\* position of the first "/" of s at or after i, Len(s) + 1 if there is none
RECURSIVE SlashFrom(_, _)
SlashFrom(s, i) ==
    IF i > Len(s) \/ s[i] = "/" THEN i ELSE SlashFrom(s, i + 1)

\* str.split("/")
RECURSIVE SplitSlash(_)
SplitSlash(s) ==
    IF SlashFrom(s, 1) > Len(s) THEN <<s>>
    ELSE <<SubSeq(s, 1, SlashFrom(s, 1) - 1)>>
            \o SplitSlash(SubSeq(s, SlashFrom(s, 1) + 1, Len(s)))

\* str.isdigit()
IsDigit(p) == p # <<>> /\ \A k \in 1..Len(p) : p[k] \in Digits

FallbackIdLen == 8

FallbackPlaceholder == <<"{", "i", "d", "}">>

\* "/".join(parts)
RECURSIVE JoinSlash(_)
JoinSlash(parts) ==
    IF parts = <<>> THEN <<>>
    ELSE IF Len(parts) = 1 THEN parts[1]
    ELSE (parts[1] \o <<"/">>) \o JoinSlash(Tail(parts))

\* metrics.normalize_fallback_path
normalize_fallback_path(path) ==
    LET parts == SplitSlash(StripSlashes(path))
        normalized == [k \in 1..Len(parts) |->
                          IF IsDigit(parts[k]) \/ Len(parts[k]) >= FallbackIdLen
                          THEN FallbackPlaceholder ELSE parts[k]]
    IN  <<"/">> \o JoinSlash(normalized)

----------------------------------------------------------------------------
\* Time

MinutesPerHour == 60
StartMinute == 56
TickMinutes == 6

\* now.replace(minute=0, second=0, microsecond=0)
HourStart(t) == t - (t % MinutesPerHour)

----------------------------------------------------------------------------
\* Requests

GoodSecret == "secret"
Secrets == {GoodSecret, "wrong"}

Users == {"u1", "u2"}
ProjectIds == {"p1", "p2"}

PathU1 == <<"/", "u", "/", "1">>
PathU2 == <<"/", "u", "/", "2">>
PatternUId == <<"/", "u", "/", ":", "i", "d">>
PatternV == <<"/", "v">>

\* schemas.TrafficLogIngest; risk_score is in thousandths
Fact(project_id, api_key_hash, method, path, endpoint, risk_score, decision, status_code, latency_ms, timestamp) ==
    [project_id |-> project_id, api_key_hash |-> api_key_hash, method |-> method,
     path |-> path, endpoint |-> endpoint, ip |-> "10.0.0.1", user_agent |-> None,
     risk_score |-> risk_score, decision |-> decision, status_code |-> status_code,
     latency_ms |-> latency_ms, timestamp |-> timestamp]

\* the facts the workers send
Facts ==
    { Fact("p1", "h1", "GET",  PathU1, PatternUId, 500,     "THROTTLE", 200, 5, 7),
      Fact("p1", None, "POST", PathU2, PatternUId, NoValue, "ALLOW",    200, 3, NoValue),
      Fact("p1", None, "GET",  PathU2, PatternUId, NoValue, "ALLOW",    200, 3, NoValue),
      Fact("p1", "hx", "POST", PathU1, NoString,   297,     "BLOCK",    500, 3, NoValue),
      Fact("p1", None, "GET",  PathU1, PatternV,   NoValue, "ALLOW",    200, 3, NoValue) }

----------------------------------------------------------------------------
\* Ingestion (worker.py, ingest_traffic)

Idle == [pc |-> "idle"]

NoResponse == [op |-> "none"]

\* no function is under evaluation
NoArgs == [fn |-> "none"]

\* the response of an ingest_traffic call
IngestResponse(status_code, status, failed) ==
    [op |-> "ingest", status_code |-> status_code, status |-> status,
     failed |-> failed]

\* an endpoint value recomputed from the raw path, whatever the caller supplied
RecomputedEndpoint(payload) == normalize_path(payload.path)

\* normalized_endpoint = payload.endpoint or payload.path
NormalizedEndpoint(payload) ==
    IF payload.endpoint # NoString THEN payload.endpoint ELSE payload.path

\* db.query(APIKey).filter(APIKey.key_hash == hash).first(): the ids it may give
KeyLookup(keys, hash) ==
    IF {k \in keys : k.key_hash = hash} = {} THEN {None}
    ELSE {k.id : k \in {k \in keys : k.key_hash = hash}}

\* db.query(Endpoint).filter(project_id, method, pattern): the matching rows
FindEndpoint(rows, project_id, method, pattern) ==
    {e \in rows : e.project_id = project_id /\ e.method = method
                  /\ e.pattern = pattern}

\* Endpoint(project_id, method, pattern, first_seen_at=now, last_seen_at=now)
NewEndpoint(id, payload, pattern, now) ==
    [id |-> id, project_id |-> payload.project_id, method |-> payload.method,
     pattern |-> pattern, first_seen_at |-> now, last_seen_at |-> now]

\* db.query(MetricBucket).filter(endpoint_id, bucket_start): the matching rows
FindBucket(rows, endpoint_id, bucket_start) ==
    {b \in rows : b.endpoint_id = endpoint_id /\ b.bucket_start = bucket_start}

\* MetricBucket(endpoint_id, bucket_start, every counter 0)
NewBucket(id, endpoint_id, bucket_start) ==
    [id |-> id, endpoint_id |-> endpoint_id, bucket_start |-> bucket_start,
     request_count |-> 0, error_count |-> 0, latency_sum |-> 0,
     risk_score_sum |-> 0, throttled_count |-> 0, blocked_count |-> 0]

\* int(payload.risk_score * 100), the risk score being in thousandths
ScaledRisk(risk_score) == risk_score \div 10

ErrorStatus == 400

\* the counter updates of one fact on the bucket object the session holds
ApplyFact(bucket, payload) ==
    [bucket EXCEPT
       !.request_count = @ + 1,
       !.latency_sum = @ + payload.latency_ms,
       !.error_count = IF payload.status_code >= ErrorStatus THEN @ + 1 ELSE @,
       !.risk_score_sum = IF payload.risk_score # NoValue
                          THEN @ + ScaledRisk(payload.risk_score) ELSE @,
       !.throttled_count = IF payload.decision = "THROTTLE" THEN @ + 1 ELSE @,
       !.blocked_count = IF payload.decision # "THROTTLE" /\ payload.decision = "BLOCK"
                         THEN @ + 1 ELSE @]

\* TrafficLog(...); created_at is the database's now(), endpoint_id is not set
NewLog(id, payload, api_key_id, pattern, now, created_at) ==
    [id |-> id, project_id |-> payload.project_id, api_key_id |-> api_key_id,
     timestamp |-> IF payload.timestamp # NoValue THEN payload.timestamp ELSE now,
     ip |-> payload.ip, user_agent |-> payload.user_agent, path |-> payload.path,
     endpoint |-> pattern, method |-> payload.method,
     status_code |-> payload.status_code, decision |-> payload.decision,
     risk_score |-> IF payload.risk_score # NoValue
                    THEN ScaledRisk(payload.risk_score) ELSE NoValue,
     latency_ms |-> payload.latency_ms, created_at |-> created_at,
     endpoint_id |-> None]

\* the columns models.TrafficLog declares
TrafficLogColumns ==
    {"id", "project_id", "api_key_id", "endpoint", "path", "method", "ip",
     "status_code", "decision", "risk_score", "latency_ms", "created_at"}

\* what table traffic_logs keeps of a row: the columns TrafficLog declares
StoredLog(l) == [f \in DOMAIN l \cap TrafficLogColumns |-> l[f]]

Counters == {"request_count", "error_count", "latency_sum", "risk_score_sum",
             "throttled_count", "blocked_count"}

\* the UPDATE the flush of a changed bucket object issues on its row: it sets
\* the columns whose value the session changed to the session's value
UpdateBucket(row, read, held) ==
    [f \in DOMAIN row |->
        IF f \in Counters /\ held[f] # read[f] THEN held[f] ELSE row[f]]

\* a commit that writes now to both timestamps of the row the session found
CommitEndpointsResettingFirstSeen(rows, x) ==
    IF x.endpoint_new THEN rows \cup {x.endpoint}
    ELSE {IF e.id = x.endpoint.id
          THEN [e EXCEPT !.first_seen_at = x.now, !.last_seen_at = x.now] ELSE e
            : e \in rows}

\* table endpoints after the commit of session x
CommitEndpoints(rows, x) ==
    IF x.endpoint_new THEN rows \cup {x.endpoint}
    ELSE {IF e.id = x.endpoint.id THEN [e EXCEPT !.last_seen_at = x.now] ELSE e
            : e \in rows}

\* table metric_buckets after the commit of session x
CommitBuckets(rows, x) ==
    IF x.bucket_new THEN rows \cup {x.bucket}
    ELSE {IF b.id = x.bucket.id THEN UpdateBucket(b, x.bucket_read, x.bucket) ELSE b
            : b \in rows}

\* table traffic_logs after the commit of session x
CommitLogs(rows, x) == rows \cup {x.log}

\* db.rollback() that leaves the endpoint row the session flushed in the table
RollbackKeepsFlushed(rows, x) ==
    IF "endpoint_new" \in DOMAIN x /\ x.endpoint_new THEN rows \cup {x.endpoint}
    ELSE rows

\* table endpoints after db.rollback() of session x: what it flushed is dropped
RollbackEndpoints(rows, x) == rows

\* request slots are interchangeable: a new request takes the lowest free one
FreeSlot(s) ==
    /\ sess[s].pc = "idle"
    /\ \A t \in Sessions : t < s => sess[t].pc # "idle"

\* a database operation of the call raises:
\* except Exception: db.rollback(); raise HTTPException(status_code=500)
Fail(s, call, fact, step) ==
    /\ endpoints' = RollbackEndpoints(endpoints, sess[s])
    /\ sess' = [sess EXCEPT ![s] = Idle]
    /\ out' = IngestResponse(500, "Ingestion failed", step)
    /\ UNCHANGED <<args, analysis, domains, issued, revoked, clock, projects, api_keys, buckets, logs, ingested, ticks>>

\* a check that lets every header value through
AcceptsAnySecret(secret) == TRUE

\* verify_worker_secret: the header equals the configured secret
verify_worker_secret(secret) == secret = GoodSecret

\* verify_worker_secret rejects the request
Reject(s) ==
    /\ FreeSlot(s)
    /\ calls < MaxCalls
    /\ calls' = calls + 1
    /\ \E fact \in Facts, secret \in Secrets :
          /\ ~verify_worker_secret(secret)
          /\ out' = IngestResponse(401, "Invalid worker secret", None)
    /\ UNCHANGED <<args, analysis, domains, issued, revoked, clock, projects, api_keys, endpoints, buckets, logs, sess,
                   ingested, ticks>>

\* a request passes verify_worker_secret; steps 1 and 2: the endpoint value
\* and the API key lookup
BeginUpTo(s, limit) ==
    /\ FreeSlot(s)
    /\ calls < limit
    /\ calls' = calls + 1
    /\ \E fact \in Facts, secret \in Secrets :
          /\ verify_worker_secret(secret)
          /\ \/ /\ \E key_id \in (IF fact.api_key_hash # None
                                  THEN KeyLookup(api_keys, fact.api_key_hash)
                                  ELSE {None}) :
                      sess' = [sess EXCEPT ![s] =
                         [pc |-> "endpoint", secret |-> secret,
                          call |-> calls + 1, fact |-> fact,
                          api_key_id |-> key_id,
                          tx_start |-> IF fact.api_key_hash # None
                                       THEN clock ELSE NoValue]]
                /\ out' = NoResponse
                /\ UNCHANGED <<args, analysis, domains, issued, revoked, clock, projects, api_keys, endpoints, buckets, logs,
                               ingested, ticks>>
             \/ /\ fact.api_key_hash # None
                /\ Fail(s, calls + 1, fact, "key")

\* the same, for at most MaxCalls requests
Begin(s) == BeginUpTo(s, MaxCalls)

\* step 3: the endpoint registry upsert
EndpointStep(s) ==
    /\ sess[s].pc = "endpoint"
    /\ LET x == sess[s]
           pattern == NormalizedEndpoint(x.fact)
           found == FindEndpoint(endpoints, x.fact.project_id, x.fact.method, pattern)
           tx_start == IF x.tx_start = NoValue THEN clock ELSE x.tx_start
           next(endpoint, is_new) ==
               [pc |-> "bucket", secret |-> x.secret, call |-> x.call, fact |-> x.fact,
                api_key_id |-> x.api_key_id, tx_start |-> tx_start, now |-> clock,
                endpoint |-> endpoint, endpoint_new |-> is_new]
       IN  \/ /\ \/ /\ found = {}
                    /\ sess' = [sess EXCEPT ![s] =
                                  next(NewEndpoint(x.call, x.fact, pattern, clock), TRUE)]
                 \/ \E e \in found :
                       sess' = [sess EXCEPT ![s] = next(e, FALSE)]
              /\ out' = NoResponse
              /\ UNCHANGED <<args, analysis, domains, issued, revoked, clock, projects, api_keys, endpoints, buckets, logs,
                             ingested, calls, ticks>>
           \/ /\ Fail(s, x.call, x.fact, "endpoint")
              /\ UNCHANGED calls

\* steps 4 and 5: the hourly bucket, its counters and the log object
BucketStep(s) ==
    /\ sess[s].pc = "bucket"
    /\ LET x == sess[s]
           bucket_start == HourStart(x.now)
           found == FindBucket(buckets, x.endpoint.id, bucket_start)
           next(bucket, is_new) ==
               [pc |-> "commit", secret |-> x.secret, call |-> x.call, fact |-> x.fact,
                api_key_id |-> x.api_key_id, tx_start |-> x.tx_start, now |-> x.now,
                endpoint |-> x.endpoint, endpoint_new |-> x.endpoint_new,
                bucket_new |-> is_new, bucket_read |-> bucket,
                bucket |-> ApplyFact(bucket, x.fact),
                log |-> NewLog(x.call, x.fact, x.api_key_id,
                               NormalizedEndpoint(x.fact), x.now, x.tx_start)]
       IN  \/ /\ \/ /\ found = {}
                    /\ sess' = [sess EXCEPT ![s] =
                                  next(NewBucket(x.call, x.endpoint.id, bucket_start), TRUE)]
                 \/ \E b \in found :
                       sess' = [sess EXCEPT ![s] = next(b, FALSE)]
              /\ out' = NoResponse
              /\ UNCHANGED <<args, analysis, domains, issued, revoked, clock, projects, api_keys, endpoints, buckets, logs,
                             ingested, calls, ticks>>
           \/ /\ Fail(s, x.call, x.fact, "bucket")
              /\ UNCHANGED calls

\* db.add(log); db.commit(); return {"status": "ingested"}; the INSERT of the
\* log row passes the foreign key on api_keys only if the key row is still there
Commit(s) ==
    /\ sess[s].pc = "commit"
    /\ LET x == sess[s]
       IN  \/ /\ x.api_key_id \in {None} \cup {k.id : k \in api_keys}
              /\ endpoints' = CommitEndpoints(endpoints, x)
              /\ buckets' = CommitBuckets(buckets, x)
              /\ logs' = CommitLogs(logs, x)
              /\ ingested' = ingested \cup
                    {[call |-> x.call, fact |-> x.fact,
                      project_id |-> x.endpoint.project_id,
                      method |-> x.endpoint.method, pattern |-> x.endpoint.pattern,
                      hour |-> x.bucket.bucket_start, now |-> x.now]}
              /\ sess' = [sess EXCEPT ![s] = Idle]
              /\ out' = IngestResponse(200, "ingested", None)
              /\ UNCHANGED <<args, analysis, domains, issued, revoked, clock, projects, api_keys, calls, ticks>>
           \/ /\ Fail(s, x.call, x.fact, "commit")
              /\ UNCHANGED calls

\* time passes
Tick ==
    /\ ticks < MaxTicks
    /\ ticks' = ticks + 1
    /\ clock' = clock + TickMinutes
    /\ out' = NoResponse
    /\ UNCHANGED <<args, analysis, domains, issued, revoked, projects, api_keys, endpoints, buckets, logs, sess, ingested,
                   calls>>

----------------------------------------------------------------------------
\* API keys, domains and projects (keys.py, domains.py, projects.py)

MaxKeys == 2

\* the projects the service starts with
SeedProjects ==
    { [id |-> "p1", owner_id |-> "u1", upstream_base_url |-> "http://one"],
      [id |-> "p2", owner_id |-> "u2", upstream_base_url |-> "http://two"] }

\* the API keys the service starts with
SeedKeys ==
    { [id |-> "k1", project_id |-> "p1", key_hash |-> "h1", label |-> None,
       is_active |-> TRUE, created_at |-> 0, revoked_at |-> NoValue] }

\* the domains the service starts with
SeedDomains ==
    { [id |-> "d1", project_id |-> "p1", hostname |-> "one.example",
       verified |-> TRUE],
      [id |-> "d2", project_id |-> "p1", hostname |-> "new.example",
       verified |-> FALSE] }

\* the keys generate_api_key returns, in order, with the row id uuid4 gives
\* and the SHA-256 digest of each
KeyTable ==
    << [id |-> "k2", raw |-> "raw2", sha256 |-> "h2"],
       [id |-> "k3", raw |-> "raw3", sha256 |-> "h3"],
       [id |-> "k4", raw |-> "raw4", sha256 |-> "h4"] >>

\* secrets.token_urlsafe(32), the n-th time it is called
generate_api_key(n) == KeyTable[n].raw

\* hashlib.sha256(raw_key.encode()).hexdigest()
hash_api_key(raw_key) ==
    KeyTable[CHOOSE n \in DOMAIN KeyTable : KeyTable[n].raw = raw_key].sha256

\* an APIKey row that keeps the raw key in its label
APIKeyKeepingRaw(id, project_id, raw_key, label, now) ==
    [id |-> id, project_id |-> project_id, key_hash |-> hash_api_key(raw_key),
     label |-> raw_key, is_active |-> TRUE, created_at |-> now,
     revoked_at |-> NoValue]

\* APIKey(project_id, key_hash, label, is_active=True)
NewAPIKey(id, project_id, raw_key, label, now) ==
    [id |-> id, project_id |-> project_id, key_hash |-> hash_api_key(raw_key),
     label |-> label, is_active |-> TRUE, created_at |-> now,
     revoked_at |-> NoValue]

\* schemas.APIKeyOut of a row
APIKeyOut(k) ==
    [id |-> k.id, label |-> k.label, is_active |-> k.is_active,
     created_at |-> k.created_at]

\* get_project_or_404 finds the project
OwnsProject(user, project_id) ==
    \E p \in projects : p.id = project_id /\ p.owner_id = user

\* HTTPException(status_code=404, detail=...)
NotFound(op, detail) == [op |-> op, status_code |-> 404, detail |-> detail]

\* the (user, project) pairs of the management requests: each user on the
\* project the user created, which may have been deleted since
Owners == {<<"u1", "p1">>, <<"u2", "p2">>}

Labels == {"prod"}

\* POST /projects/{project_id}/keys
CreateKey(user, project_id, label) ==
    /\ \/ /\ ~OwnsProject(user, project_id)
          /\ out' = NotFound("create_key", "Project not found")
          /\ UNCHANGED <<api_keys, issued>>
       \/ /\ OwnsProject(user, project_id)
          /\ issued < MaxKeys
          /\ issued' = issued + 1
          /\ LET raw_key == generate_api_key(issued + 1)
                 api_key == NewAPIKey(KeyTable[issued + 1].id, project_id, raw_key,
                                      label, clock)
             IN  /\ api_keys' = api_keys \cup {api_key}
                 /\ out' = [op |-> "create_key", status_code |-> 201,
                            id |-> api_key.id, label |-> api_key.label,
                            api_key |-> raw_key, created_at |-> api_key.created_at]
    /\ UNCHANGED <<args, analysis, domains, revoked, clock, projects, endpoints,
                   buckets, logs, sess, ingested, calls, ticks>>

\* GET /projects/{project_id}/keys
ListKeys(user, project_id) ==
    /\ \/ /\ ~OwnsProject(user, project_id)
          /\ out' = NotFound("list_keys", "Project not found")
       \/ /\ OwnsProject(user, project_id)
          /\ out' = [op |-> "list_keys", status_code |-> 200,
                     keys |-> {APIKeyOut(k) : k \in {k \in api_keys :
                                                      k.project_id = project_id}}]
    /\ UNCHANGED <<args, analysis, domains, issued, revoked, clock, projects,
                   api_keys, endpoints, buckets, logs, sess, ingested, calls, ticks>>

\* DELETE /projects/{project_id}/keys/{key_id}
RevokeKey(user, project_id, key_id) ==
    /\ \/ /\ ~OwnsProject(user, project_id)
          /\ out' = NotFound("revoke_key", "Project not found")
          /\ UNCHANGED <<api_keys, revoked>>
       \/ /\ OwnsProject(user, project_id)
          /\ ~\E k \in api_keys : k.id = key_id /\ k.project_id = project_id
          /\ out' = NotFound("revoke_key", "API key not found")
          /\ UNCHANGED <<api_keys, revoked>>
       \/ /\ OwnsProject(user, project_id)
          /\ \E k \in api_keys :
                /\ k.id = key_id /\ k.project_id = project_id
                /\ api_keys' = (api_keys \ {k}) \cup
                      {[k EXCEPT !.is_active = FALSE, !.revoked_at = clock]}
                /\ revoked' = revoked \cup {k.key_hash}
          /\ out' = [op |-> "revoke_key", status_code |-> 204]
    /\ UNCHANGED <<args, analysis, domains, issued, clock, projects, endpoints,
                   buckets, logs, sess, ingested, calls, ticks>>

\* the key ids revoke requests name
KeyIds == {"k1"} \cup {KeyTable[n].id : n \in DOMAIN KeyTable}

\* the hostnames add_domain is asked for
Hostnames == {"two.example"}

\* POST /projects/{project_id}/domains
AddDomain(user, project_id, hostname) ==
    /\ \/ /\ ~OwnsProject(user, project_id)
          /\ out' = NotFound("add_domain", "Project not found")
          /\ UNCHANGED domains
       \/ /\ OwnsProject(user, project_id)
          /\ \E d \in domains : d.hostname = hostname
          /\ out' = [op |-> "add_domain", status_code |-> 409,
                     detail |-> "Domain already in use by another project"]
          /\ UNCHANGED domains
       \/ /\ OwnsProject(user, project_id)
          /\ ~\E d \in domains : d.hostname = hostname
          /\ domains' = domains \cup
                {[id |-> hostname, project_id |-> project_id,
                  hostname |-> hostname, verified |-> FALSE]}
          /\ out' = [op |-> "add_domain", status_code |-> 201,
                     hostname |-> hostname, verified |-> FALSE]
    /\ UNCHANGED <<args, analysis, issued, revoked, clock, projects, api_keys,
                   endpoints, buckets, logs, sess, ingested, calls, ticks>>

\* POST /projects/{project_id}/domains/{domain_id}/verify; the DNS lookup of
\* verify_domain_dns finds the TXT record or does not
VerifyDomain(user, project_id, domain_id) ==
    /\ \/ /\ ~OwnsProject(user, project_id)
          /\ out' = NotFound("verify_domain", "Project not found")
          /\ UNCHANGED domains
       \/ /\ OwnsProject(user, project_id)
          /\ ~\E d \in domains : d.id = domain_id /\ d.project_id = project_id
          /\ out' = NotFound("verify_domain", "Domain not found")
          /\ UNCHANGED domains
       \/ /\ OwnsProject(user, project_id)
          /\ \E d \in domains :
                /\ d.id = domain_id /\ d.project_id = project_id
                /\ \/ /\ d.verified
                      /\ out' = [op |-> "verify_domain", status_code |-> 200,
                                 verified |-> TRUE]
                      /\ UNCHANGED domains
                   \/ /\ ~d.verified
                      /\ out' = [op |-> "verify_domain", status_code |-> 400,
                                 detail |-> "DNS verification failed"]
                      /\ UNCHANGED domains
                   \/ /\ ~d.verified
                      /\ domains' = (domains \ {d}) \cup {[d EXCEPT !.verified = TRUE]}
                      /\ out' = [op |-> "verify_domain", status_code |-> 200,
                                 verified |-> TRUE]
    /\ UNCHANGED <<args, analysis, issued, revoked, clock, projects, api_keys,
                   endpoints, buckets, logs, sess, ingested, calls, ticks>>

\* DELETE /projects/{project_id}/domains/{domain_id}
DeleteDomain(user, project_id, domain_id) ==
    /\ \/ /\ ~OwnsProject(user, project_id)
          /\ out' = NotFound("delete_domain", "Project not found")
          /\ UNCHANGED domains
       \/ /\ OwnsProject(user, project_id)
          /\ ~\E d \in domains : d.id = domain_id /\ d.project_id = project_id
          /\ out' = NotFound("delete_domain", "Domain not found")
          /\ UNCHANGED domains
       \/ /\ OwnsProject(user, project_id)
          /\ \E d \in domains :
                /\ d.id = domain_id /\ d.project_id = project_id
                /\ domains' = domains \ {d}
          /\ out' = [op |-> "delete_domain", status_code |-> 204]
    /\ UNCHANGED <<args, analysis, issued, revoked, clock, projects, api_keys,
                   endpoints, buckets, logs, sess, ingested, calls, ticks>>

\* the domain ids the requests name
DomainIds == {d.id : d \in SeedDomains} \cup Hostnames

\* DELETE /projects/{project_id}: the project goes with its API keys,
\* domains, traffic logs, endpoints and their buckets; a log row of another
\* project that names one of the deleted keys has its api_key_id set to null
DeleteProject(user, project_id) ==
    /\ \/ /\ ~OwnsProject(user, project_id)
          /\ out' = NotFound("delete_project", "Project not found")
          /\ UNCHANGED <<projects, api_keys, domains, endpoints, buckets, logs>>
       \/ /\ OwnsProject(user, project_id)
          /\ projects' = {p \in projects : p.id # project_id}
          /\ api_keys' = {k \in api_keys : k.project_id # project_id}
          /\ domains' = {d \in domains : d.project_id # project_id}
          /\ endpoints' = {e \in endpoints : e.project_id # project_id}
          /\ buckets' = {b \in buckets :
                            \E e \in endpoints : e.id = b.endpoint_id
                                                  /\ e.project_id # project_id}
          /\ logs' = {IF \E k \in api_keys : k.id = l.api_key_id
                                               /\ k.project_id = project_id
                       THEN [l EXCEPT !.api_key_id = None] ELSE l :
                            l \in {l \in logs : l.project_id # project_id}}
          /\ out' = [op |-> "delete_project", status_code |-> 204]
    /\ UNCHANGED <<args, analysis, issued, revoked, clock, sess, ingested,
                   calls, ticks>>

----------------------------------------------------------------------------
\* Worker configuration (worker.py, get_worker_config)

\* a project entry that lists the keys of the project whether active or not
ConfigWithRevokedKeys(p) ==
    [id |-> p.id, upstream_url |-> p.upstream_base_url,
     domains |-> {d.hostname : d \in {d \in domains :
                                         d.verified /\ d.project_id = p.id}},
     api_keys |-> {k.key_hash : k \in {k \in api_keys : k.project_id = p.id}}]

\* WorkerProjectConfig(id, upstream_url, domains, api_keys) of project p
WorkerProjectConfig(p) ==
    [id |-> p.id, upstream_url |-> p.upstream_base_url,
     domains |-> {d.hostname : d \in {d \in domains :
                                         d.verified /\ d.project_id = p.id}},
     api_keys |-> {k.key_hash : k \in {k \in api_keys :
                                          k.is_active /\ k.project_id = p.id}}]

\* GET /internal/worker/config with the given X-Control-Secret header
WorkerConfig(secret) ==
    /\ \/ /\ ~verify_worker_secret(secret)
          /\ out' = [op |-> "config", secret |-> secret, status_code |-> 401,
                     detail |-> "Invalid worker secret"]
       \/ /\ verify_worker_secret(secret)
          /\ out' = [op |-> "config", secret |-> secret, status_code |-> 200,
                     projects |-> {WorkerProjectConfig(p) : p \in projects}]
    /\ UNCHANGED <<args, analysis, domains, issued, revoked, clock, projects,
                   api_keys, endpoints, buckets, logs, sess, ingested, calls, ticks>>

----------------------------------------------------------------------------
\* Endpoint analysis (metrics.py, endpoint_analysis)

WindowMinutes == 5
HoursPerDay == 24
BaselineDays == 7

\* minutes_in_7d = 7 * 24 * 60
MinutesIn7d == BaselineDays * HoursPerDay * MinutesPerHour

\* minutes_in_tod = 7 * 60
MinutesInTod == BaselineDays * MinutesPerHour

\* now.hour, extract("hour", bucket_start)
HourOfDay(t) == (t \div MinutesPerHour) % HoursPerDay

Unregistered == <<"U", "N", "R", "E", "G", "I", "S", "T", "E", "R", "E", "D">>
UnknownPath == <<"/", "u", "n", "k", "n", "o", "w", "n">>

RECURSIVE SumFn(_, _)
SumFn(f, S) ==
    IF S = {} THEN 0
    ELSE LET x == CHOOSE x \in S : TRUE IN f[x] + SumFn(f, S \ {x})

RECURSIVE ProductFn(_, _)
ProductFn(f, S) ==
    IF S = {} THEN 1
    ELSE LET x == CHOOSE x \in S : TRUE IN f[x] * ProductFn(f, S \ {x})

\* db.query(Endpoint).filter(Endpoint.project_id == project.id).all()
ProjectEndpoints(project_id) == {e \in endpoints : e.project_id = project_id}

\* the traffic_logs rows of the current-traffic query
CurrentRows(project_id, now) ==
    {l \in logs : l.project_id = project_id /\ l.created_at >= now - WindowMinutes}

\* group_by(TrafficLog.endpoint_id, TrafficLog.endpoint): the keys of the groups
CurrentGroups(project_id, now) ==
    {<<l.endpoint_id, l.endpoint>> : l \in CurrentRows(project_id, now)}

GroupRows(project_id, now, g) ==
    {l \in CurrentRows(project_id, now) : <<l.endpoint_id, l.endpoint>> = g}

\* the pattern a group of current rows is counted under
GroupPattern(project_id, g) ==
    IF g[1] # None /\ g[1] \in {e.id : e \in ProjectEndpoints(project_id)}
    THEN (CHOOSE e \in ProjectEndpoints(project_id) : e.id = g[1]).pattern
    ELSE normalize_fallback_path(IF g[2] # NoString THEN g[2] ELSE UnknownPath)

\* the keys of endpoint_map: the registered patterns, "UNREGISTERED" and the
\* patterns of the current rows
AnalysisKeys(project_id, now) ==
    {e.pattern : e \in ProjectEndpoints(project_id)}
        \cup {Unregistered}
        \cup {GroupPattern(project_id, g) : g \in CurrentGroups(project_id, now)}

\* curr_stats[pattern]; avg_risk is the fraction <<numerator, denominator>>
CurrStats(project_id, now, pattern) ==
    LET groups == {g \in CurrentGroups(project_id, now) :
                      GroupPattern(project_id, g) = pattern}
        rows(g) == GroupRows(project_id, now, g)
        requests == [g \in groups |-> Cardinality(rows(g))]
        scored == [g \in groups |->
                      Cardinality({l \in rows(g) : l.risk_score # NoValue})]
        risk_sum == [g \in groups |->
                      SumFn([l \in rows(g) |->
                               IF l.risk_score # NoValue THEN l.risk_score ELSE 0],
                            rows(g))]
        throttled == [g \in groups |->
                      Cardinality({l \in rows(g) : l.decision = "THROTTLE"})]
        blocked == [g \in groups |->
                      Cardinality({l \in rows(g) : l.decision = "BLOCK"})]
        risk_groups == {g \in groups : scored[g] > 0}
        common == ProductFn(scored, risk_groups)
        risk_count == SumFn(requests, risk_groups)
        \* avg_risk_sum = sum of avg(risk_score) * requests, times common
        avg_risk_sum == SumFn([g \in risk_groups |->
                                  risk_sum[g] * requests[g] * (common \div scored[g])],
                              risk_groups)
    IN  [requests |-> SumFn(requests, groups),
         throttled |-> SumFn(throttled, groups),
         blocked |-> SumFn(blocked, groups),
         avg_risk |-> IF risk_count > 0 THEN <<avg_risk_sum, common * risk_count>>
                      ELSE <<0, 1>>]

\* the endpoint ids the baseline query returns a row for, with total_reqs
BaselineRows(project_id, since, hours) ==
    LET rows(e) == {b \in buckets : /\ b.endpoint_id = e.id
                                    /\ b.bucket_start >= since
                                    /\ HourOfDay(b.bucket_start) \in hours}
    IN  {<<e.pattern, SumFn([b \in rows(e) |-> b.request_count], rows(e))>> :
            e \in {e \in ProjectEndpoints(project_id) : rows(e) # {}}}

\* the values base_rpm may take before the floor, as fractions: the entry of
\* tod_rpm_map, else that of hist_rpm_map, else 0; rows of endpoints that
\* share a pattern overwrite one another in the order the query returns them
BaseRpmChoices(project_id, now, pattern) ==
    LET tod == {r[2] : r \in {r \in BaselineRows(project_id, now - MinutesIn7d,
                                                 {HourOfDay(now)}) : r[1] = pattern}}
        hist == {r[2] : r \in {r \in BaselineRows(project_id, now - MinutesIn7d,
                                                  0..(HoursPerDay - 1)) : r[1] = pattern}}
    IN  IF tod # {} THEN {<<t, MinutesInTod>> : t \in tod}
        ELSE IF hist # {} THEN {<<h, MinutesIn7d>> : h \in hist}
        ELSE {<<0, 1>>}

\* base_rpm = max(base_rpm, 0.1)
FloorBase(base) == IF base[1] * 10 < base[2] THEN <<1, 10>> ELSE base

\* a classification that looks at the risk score before the throttle rate
ClassifyRiskFirst(requests, throttled, base, avg_risk) ==
    IF avg_risk[1] * 10 >= 7 * avg_risk[2]
        THEN <<"WATCH", "yellow", "Elevated risk scores.">>
    ELSE IF requests > 0 /\ throttled * 10 > requests
        THEN <<"HIGH", "red", "High throttling detected.">>
    ELSE IF requests = 0
        THEN <<"NORMAL", "green", "No active traffic.">>
    ELSE <<"NORMAL", "green", "Traffic within normal range.">>

\* a classification that looks at the risk score before the traffic spike
ClassifyRiskBeforeSpike(requests, throttled, base, avg_risk) ==
    IF requests > 0 /\ throttled * 10 > requests
        THEN <<"HIGH", "red", "High throttling detected.">>
    ELSE IF avg_risk[1] * 10 >= 7 * avg_risk[2]
        THEN <<"WATCH", "yellow", "Elevated risk scores.">>
    ELSE IF requests * base[2] >= 4 * WindowMinutes * base[1] /\ requests > 10 * WindowMinutes
        THEN <<"HIGH", "red", "Traffic spike detected.">>
    ELSE IF requests * base[2] >= 2 * WindowMinutes * base[1] /\ requests > 5 * WindowMinutes
        THEN <<"WATCH", "yellow", "Traffic elevated.">>
    ELSE IF requests = 0
        THEN <<"NORMAL", "green", "No active traffic.">>
    ELSE <<"NORMAL", "green", "Traffic within normal range.">>

\* severity, color and note of one endpoint; requests in the window, base_rpm
\* and avg_risk as fractions
Classify(requests, throttled, base, avg_risk) ==
    IF requests > 0 /\ throttled * 10 > requests
        THEN <<"HIGH", "red", "High throttling detected.">>
    ELSE IF requests * base[2] >= 4 * WindowMinutes * base[1] /\ requests > 10 * WindowMinutes
        THEN <<"HIGH", "red", "Traffic spike detected.">>
    ELSE IF avg_risk[1] * 10 >= 7 * avg_risk[2]
        THEN <<"WATCH", "yellow", "Elevated risk scores.">>
    ELSE IF requests * base[2] >= 2 * WindowMinutes * base[1] /\ requests > 5 * WindowMinutes
        THEN <<"WATCH", "yellow", "Traffic elevated.">>
    ELSE IF requests = 0
        THEN <<"NORMAL", "green", "No active traffic.">>
    ELSE <<"NORMAL", "green", "Traffic within normal range.">>

\* EndpointAnalysis(...) built from the current statistics c of a key of
\* endpoint_map and its base_rpm
AssembleResult(pattern, c, base_rpm) ==
    LET base == FloorBase(base_rpm)
        class == Classify(c.requests, c.throttled, base, c.avg_risk)
    IN  [endpoint |-> pattern, severity |-> class[1], color |-> class[2],
         summary |-> class[3], requests |-> c.requests, baseline |-> base,
         securex_action |-> IF class[1] = "NORMAL" THEN "Monitoring"
                            ELSE "Active mitigation",
         suggested_action |-> IF class[1] = "NORMAL" THEN None
                              ELSE "Inspect traffic sources."]

\* EndpointAnalysis(...) of one key of endpoint_map
AnalysisResult(project_id, now, pattern, base_rpm) ==
    AssembleResult(pattern, CurrStats(project_id, now, pattern), base_rpm)

\* EndpointAnalysisResponse(generated_at, endpoints)
AnalysisResponse(project_id, user, generated_at, results, failed) ==
    [op |-> "analysis", project_id |-> project_id, user |-> user,
     status_code |-> 200, failed |-> failed,
     generated_at |-> generated_at, endpoints |-> results]

\* an empty response stamped with the time the analysis began
StaleFailureResponse(project_id, user, now, failed_at, failed) ==
    AnalysisResponse(project_id, user, now, {}, failed)

\* except Exception: EndpointAnalysisResponse(generated_at=datetime.utcnow(),
\* endpoints=[])
FailureResponse(project_id, user, now, failed_at, failed) ==
    AnalysisResponse(project_id, user, failed_at, {}, failed)

\* the analysis requests made: by the owner of a project and by another user
AnalysisRequests == {<<"u1", "p1">>, <<"u2", "p1">>}

\* GET /projects/{project_id}/endpoint-analysis, up to now = datetime.utcnow():
\* get_project_or_404 raises inside the try block when the user does not own
\* the project, and any exception ends in the empty response
AnalysisStart(user, project_id) ==
    /\ analysis = Idle
    /\ \/ /\ OwnsProject(user, project_id)
          /\ analysis' = [pc |-> "query", user |-> user, project_id |-> project_id,
                          now |-> clock]
          /\ out' = NoResponse
       \/ /\ ~OwnsProject(user, project_id)
          /\ out' = FailureResponse(project_id, user, clock, clock, "not_found")
          /\ UNCHANGED analysis
       \/ /\ out' = FailureResponse(project_id, user, clock, clock, "error")
          /\ UNCHANGED analysis
    /\ UNCHANGED <<args, domains, issued, revoked, clock, projects, api_keys,
                   endpoints, buckets, logs, sess, ingested, calls, ticks>>

\* the queries of the analysis and the assembly of its results, or an
\* exception on the way: the empty response with generated_at=datetime.utcnow()
AnalysisFinish ==
    /\ analysis.pc = "query"
    /\ analysis' = Idle
    /\ LET project_id == analysis.project_id
           now == analysis.now
           keys == AnalysisKeys(project_id, now)
       IN  \/ \E base \in [keys -> UNION {BaseRpmChoices(project_id, now, k) : k \in keys}] :
                 /\ \A k \in keys : base[k] \in BaseRpmChoices(project_id, now, k)
                 /\ out' = AnalysisResponse(project_id, analysis.user, now,
                              {AnalysisResult(project_id, now, k, base[k]) : k \in keys},
                              None)
           \/ out' = FailureResponse(project_id, analysis.user, now, clock, "error")
    /\ UNCHANGED <<args, domains, issued, revoked, clock, projects, api_keys,
                   endpoints, buckets, logs, sess, ingested, calls, ticks>>

----------------------------------------------------------------------------
\* the fact of the call that filled the database the service starts with
SeedFact ==
    Fact("p1", "h1", "GET", PathU1, PatternUId, 500, "THROTTLE", 200, 5, 7)

SeedEndpoint ==
    NewEndpoint(0, SeedFact, NormalizedEndpoint(SeedFact), StartMinute)

SeedBucket ==
    ApplyFact(NewBucket(0, SeedEndpoint.id, HourStart(StartMinute)), SeedFact)

SeedLog ==
    NewLog(0, SeedFact, "k1", NormalizedEndpoint(SeedFact), StartMinute, StartMinute)

\* the tables the ingestion pipeline writes are empty
EmptyTables ==
    /\ endpoints = {}
    /\ buckets = {}
    /\ logs = {}
    /\ ingested = {}

\* the service at start: two projects of two users, one API key, no request
\* in progress
InitService ==
    /\ clock = StartMinute
    /\ projects = SeedProjects
    /\ api_keys = SeedKeys
    /\ sess = [s \in Sessions |-> Idle]
    /\ out = NoResponse
    /\ calls = 0
    /\ ticks = 0
    /\ analysis = Idle
    /\ domains = SeedDomains
    /\ issued = 0
    /\ revoked = {}

\* the service starts on an empty database, or on the database one committed
\* ingest_traffic call has left
Init ==
    /\ InitService
    /\ args = NoArgs
    /\ \/ EmptyTables
       \/ /\ endpoints = {SeedEndpoint}
          /\ buckets = {SeedBucket}
          /\ logs = {SeedLog}
          /\ ingested = {[call |-> 0, fact |-> SeedFact,
                          project_id |-> SeedEndpoint.project_id,
                          method |-> SeedEndpoint.method,
                          pattern |-> SeedEndpoint.pattern,
                          hour |-> SeedBucket.bucket_start,
                          now |-> StartMinute]}

Next ==
    \/ \E s \in Sessions : Reject(s)
    \/ \E s \in Sessions : Begin(s)
    \/ \E s \in Sessions : EndpointStep(s)
    \/ \E s \in Sessions : BucketStep(s)
    \/ \E s \in Sessions : Commit(s)
    \/ \E r \in AnalysisRequests : AnalysisStart(r[1], r[2])
    \/ AnalysisFinish
    \/ Tick

Spec == Init /\ [][Next]_vars

\* the ingestion pipeline alone
NextIngestion ==
    \/ \E s \in Sessions : Reject(s)
    \/ \E s \in Sessions : Begin(s)
    \/ \E s \in Sessions : EndpointStep(s)
    \/ \E s \in Sessions : BucketStep(s)
    \/ \E s \in Sessions : Commit(s)
    \/ Tick

SpecIngestion == Init /\ [][NextIngestion]_vars

\* the worker-facing endpoints, ingestion and configuration, at one time
NextWorker ==
    \/ \E s \in Sessions : Reject(s)
    \/ \E s \in Sessions : Begin(s)
    \/ \E s \in Sessions : EndpointStep(s)
    \/ \E s \in Sessions : BucketStep(s)
    \/ \E s \in Sessions : Commit(s)
    \/ \E secret \in Secrets : WorkerConfig(secret)

SpecWorker == Init /\ [][NextWorker]_vars

\* the management of keys, domains and projects, and the configuration the
\* workers fetch
NextKeys ==
    \/ \E r \in Owners, label \in Labels : CreateKey(r[1], r[2], label)
    \/ \E r \in Owners : ListKeys(r[1], r[2])
    \/ \E r \in Owners, key_id \in KeyIds : RevokeKey(r[1], r[2], key_id)
    \/ \E r \in Owners, hostname \in Hostnames : AddDomain(r[1], r[2], hostname)
    \/ \E r \in Owners, domain_id \in DomainIds : VerifyDomain(r[1], r[2], domain_id)
    \/ \E r \in Owners, domain_id \in DomainIds : DeleteDomain(r[1], r[2], domain_id)
    \/ \E r \in Owners : DeleteProject(r[1], r[2])
    \/ \E secret \in Secrets : WorkerConfig(secret)

InitKeys ==
    /\ InitService
    /\ EmptyTables
    /\ args = NoArgs

SpecKeys == InitKeys /\ [][NextKeys]_vars

\* the tables after an ingest_traffic call with the given fact has run from
\* begin to commit with no other call in between; t holds the tables before
IngestAlone(t, fact, id, now) ==
    LET pattern == NormalizedEndpoint(fact)
        found == FindEndpoint(t.endpoints, fact.project_id, fact.method, pattern)
        endpoint == IF found = {} THEN NewEndpoint(id, fact, pattern, now)
                    ELSE CHOOSE e \in found : TRUE
        held == FindBucket(t.buckets, endpoint.id, HourStart(now))
        bucket == IF held = {} THEN NewBucket(id, endpoint.id, HourStart(now))
                  ELSE CHOOSE b \in held : TRUE
        key_id == IF fact.api_key_hash # None
                  THEN CHOOSE i \in KeyLookup(SeedKeys, fact.api_key_hash) : TRUE
                  ELSE None
        x == [endpoint |-> endpoint, endpoint_new |-> (found = {}), now |-> now,
              bucket_new |-> (held = {}), bucket_read |-> bucket,
              bucket |-> ApplyFact(bucket, fact),
              log |-> NewLog(id, fact, key_id, pattern, now, now)]
    IN  [endpoints |-> CommitEndpoints(t.endpoints, x),
         buckets |-> CommitBuckets(t.buckets, x),
         logs |-> CommitLogs(t.logs, x),
         ingested |-> t.ingested \cup
             {[call |-> id, fact |-> fact, project_id |-> endpoint.project_id,
               method |-> endpoint.method, pattern |-> endpoint.pattern,
               hour |-> HourStart(now), now |-> now]}]

NoTables == [endpoints |-> {}, buckets |-> {}, logs |-> {}, ingested |-> {}]

\* the databases that no call, one call or two calls in a row have left
SeedTables ==
    {NoTables}
        \cup {IngestAlone(NoTables, f, 0 - 1, StartMinute) : f \in Facts}
        \cup {IngestAlone(IngestAlone(NoTables, f, 0 - 2, StartMinute),
                          g, 0 - 1, StartMinute) : f \in Facts, g \in Facts}

InitAnalysis ==
    /\ InitService
    /\ args = NoArgs
    /\ \E t \in SeedTables :
          /\ endpoints = t.endpoints
          /\ buckets = t.buckets
          /\ logs = t.logs
          /\ ingested = t.ingested

\* the endpoint analysis alone, on the databases earlier calls have left
NextAnalysis ==
    \/ \E r \in AnalysisRequests : AnalysisStart(r[1], r[2])
    \/ AnalysisFinish
    \/ Tick

SpecAnalysis == InitAnalysis /\ [][NextAnalysis]_vars

----------------------------------------------------------------------------
\* The endpoint analysis on databases that many earlier calls have left

BusyHourCalls == 84
BusyWeekCalls == 2100

\* the metric_buckets row n calls with the given fact leave, one after the
\* other, in the hour that starts at bucket_start
BucketAfter(id, endpoint_id, bucket_start, fact, n) ==
    LET once == ApplyFact(NewBucket(id, endpoint_id, bucket_start), fact)
    IN  [f \in DOMAIN once |-> IF f \in Counters THEN n * once[f] ELSE once[f]]

\* the second fact of the workers with the method of the first: another
\* endpoint with the same pattern
TwinFact == [SeedFact EXCEPT !.method = "POST"]

\* endpoints and metric_buckets after n0 calls in the hour of StartMinute and
\* n1 calls in the hour before on the endpoint of SeedFact, and after one call
\* in the hour of StartMinute on the endpoint of TwinFact if twin holds.  The
\* traffic_logs rows of these calls are older than the window of every
\* analysis made and are left out: no query of the analysis returns them.
BusyTables(n0, n1, twin) ==
    LET hour == HourStart(StartMinute)
        e == [SeedEndpoint EXCEPT !.first_seen_at = hour - MinutesPerHour,
                                  !.last_seen_at = hour]
        t == NewEndpoint(0 - 1, TwinFact, NormalizedEndpoint(TwinFact), hour)
    IN  [endpoints |-> {e} \cup (IF twin THEN {t} ELSE {}),
         buckets |->
            (IF n0 > 0 THEN {BucketAfter(0, e.id, hour, SeedFact, n0)} ELSE {})
            \cup (IF n1 > 0
                  THEN {BucketAfter(0 - 2, e.id, hour - MinutesPerHour, SeedFact, n1)}
                  ELSE {})
            \cup (IF twin THEN {BucketAfter(0 - 1, t.id, hour, TwinFact, 1)} ELSE {})]

InitBaseline ==
    /\ InitService
    /\ args = NoArgs
    /\ logs = {}
    /\ ingested = {}
    /\ \E n0 \in {0, 1, BusyHourCalls}, n1 \in {0, 1, BusyWeekCalls}, twin \in BOOLEAN :
          /\ n0 + n1 > 0
          /\ endpoints = BusyTables(n0, n1, twin).endpoints
          /\ buckets = BusyTables(n0, n1, twin).buckets

SpecBaseline == InitBaseline /\ [][NextAnalysis]_vars

----------------------------------------------------------------------------
\* Ingestion and analysis of project p1 while project p2 is deleted; the API
\* key of the seed data belongs to either project

\* the delete_project requests made: by the owner of p2 and by another user
DeleteRequests == {<<"u2", "p2">>, <<"u1", "p2">>}

InitFrame ==
    /\ clock = StartMinute
    /\ projects = SeedProjects
    /\ \E owner \in ProjectIds :
          api_keys = {[k EXCEPT !.project_id = owner] : k \in SeedKeys}
    /\ sess = [s \in Sessions |-> Idle]
    /\ out = NoResponse
    /\ calls = 0
    /\ ticks = 0
    /\ analysis = Idle
    /\ domains = SeedDomains
    /\ issued = 0
    /\ revoked = {}
    /\ args = NoArgs
    /\ EmptyTables

NextFrame ==
    \/ \E s \in Sessions : Reject(s)
    \/ \E s \in Sessions : Begin(s)
    \/ \E s \in Sessions : EndpointStep(s)
    \/ \E s \in Sessions : BucketStep(s)
    \/ \E s \in Sessions : Commit(s)
    \/ \E r \in AnalysisRequests : AnalysisStart(r[1], r[2])
    \/ AnalysisFinish
    \/ \E r \in DeleteRequests : DeleteProject(r[1], r[2])

SpecFrame == InitFrame /\ [][NextFrame]_vars

----------------------------------------------------------------------------
\* Three ingest_traffic calls on the bucket an earlier call has left, with no
\* other request and the clock standing still

MaxRaceCalls == 3

InitRace ==
    /\ InitService
    /\ args = NoArgs
    /\ endpoints = {SeedEndpoint}
    /\ buckets = {SeedBucket}
    /\ logs = {SeedLog}
    /\ ingested = {[call |-> 0, fact |-> SeedFact,
                    project_id |-> SeedEndpoint.project_id,
                    method |-> SeedEndpoint.method,
                    pattern |-> SeedEndpoint.pattern,
                    hour |-> SeedBucket.bucket_start,
                    now |-> StartMinute]}

NextRace ==
    \/ \E s \in Sessions : BeginUpTo(s, MaxRaceCalls)
    \/ \E s \in Sessions : EndpointStep(s)
    \/ \E s \in Sessions : BucketStep(s)
    \/ \E s \in Sessions : Commit(s)

SpecRace == InitRace /\ [][NextRace]_vars

----------------------------------------------------------------------------
\* The severity classification alone, on statistics drawn from bounded sets

\* requests in the window, on both sides of 5 rpm, 10 rpm and the multiples
\* of the baselines below
RequestCounts == {0, 1, 5, 9, 10, 11, 20, 25, 26, 50, 51, 52, 100, 199, 200, 250}

\* sums of request_count the baseline queries may return
BaselineTotals == {0, 42, 1092, 2100, 4200}

\* base_rpm before the floor: time-of-day entry, 7-day entry, or neither
BaseRpms ==
    {<<0, 1>>} \cup {<<t, MinutesInTod>> : t \in BaselineTotals}
               \cup {<<t, MinutesIn7d>> : t \in BaselineTotals}

\* avg_risk as fractions, on both sides of 0.7
AvgRisks == {<<0, 1>>, <<69, 100>>, <<7, 10>>, <<50, 1>>}

\* throttled counts on both sides of a tenth of the requests
ThrottledCounts(requests) ==
    {0, requests \div 10, (requests \div 10) + 1, requests} \cap 0..requests

ClassifyArgs ==
    UNION {{[fn |-> "classify",
             stats |-> [requests |-> r, throttled |-> t, blocked |-> 0,
                        avg_risk |-> a],
             base_rpm |-> b] :
                t \in ThrottledCounts(r), a \in AvgRisks, b \in BaseRpms} :
           r \in RequestCounts}

InitClassify ==
    /\ InitService
    /\ EmptyTables
    /\ args \in ClassifyArgs

\* one pass of the result loop of endpoint_analysis on the drawn statistics
Assemble ==
    /\ args.fn = "classify"
    /\ out = NoResponse
    /\ out' = [op |-> "classify",
               result |-> AssembleResult(Unregistered, args.stats, args.base_rpm)]
    /\ UNCHANGED <<args, analysis, domains, issued, revoked, clock, projects,
                   api_keys, endpoints, buckets, logs, sess, ingested, calls, ticks>>

NextClassify == Assemble

SpecClassify == InitClassify /\ [][NextClassify]_vars

----------------------------------------------------------------------------
\* The path canonicalization alone (utils.py), on paths drawn from a bounded
\* set of segments

\* c repeated n times
Rep(c, n) == [k \in 1..n |-> c]

\* the UUID of the docstring of normalize_path
SampleUuid ==
    <<"6", "4", "8", "e", "3", "c", "3", "e", "-", "5", "5", "4", "9",
    "-", "4", "2", "5", "c", "-", "9", "3", "8", "e", "-", "6", "9", "6",
    "1", "b", "7", "b", "3", "6", "0", "a", "2">>

\* the object id of the docstring of normalize_path
SampleObjectId ==
    <<"5", "0", "7", "f", "1", "f", "7", "7", "b", "c", "f", "8", "6",
    "c", "d", "7", "9", "9", "4", "3", "9", "0", "1", "1">>

\* a run of hexadecimal characters one short of two object ids
LongHex == Rep("a", ObjectIdLen + ObjectIdLen - 1)

\* the segments a path is made of: plain names, the three kinds of id, ids
\* with more characters around them, a long alphanumeric token, the
\* placeholder itself and the empty segment
PathSegments ==
    { <<"u", "s", "e", "r", "s">>,
      <<"1", "2", "3">>,
      <<"1", "2", "3", "a", "b", "c">>,
      SampleUuid,
      SampleObjectId,
      SampleObjectId \o <<"a", "b", "c">>,
      <<"x">> \o SampleUuid,
      LongHex,
      <<"s", "e", "s", "s">> \o Rep("z", 12) \o <<"2", "0", "2", "4">>,
      IdPlaceholder,
      <<>> }

MaxSegments == 2

\* "/" followed by the segments joined with "/"
RECURSIVE PathsOf(_)
PathsOf(n) ==
    IF n = 1 THEN {<<"/">> \o s : s \in PathSegments}
    ELSE PathsOf(n - 1)
            \cup {(p \o <<"/">>) \o s : p \in PathsOf(n - 1), s \in PathSegments}

PathArgs == {[fn |-> "normalize_path", path |-> p] : p \in PathsOf(MaxSegments)}

InitPaths ==
    /\ InitService
    /\ EmptyTables
    /\ args \in PathArgs

\* normalize_path(path) on the drawn path
Canonicalize ==
    /\ args.fn = "normalize_path"
    /\ out = NoResponse
    /\ out' = [op |-> "normalize_path", calls |-> 1, path |-> args.path,
               pattern |-> normalize_path(args.path)]
    /\ UNCHANGED <<args, analysis, domains, issued, revoked, clock, projects,
                   api_keys, endpoints, buckets, logs, sess, ingested, calls, ticks>>

\* normalize_path applied to the pattern the first call returned
Recanonicalize ==
    /\ out.op = "normalize_path"
    /\ out.calls = 1
    /\ out' = [op |-> "normalize_path", calls |-> 2, path |-> out.pattern,
               pattern |-> normalize_path(out.pattern)]
    /\ UNCHANGED <<args, analysis, domains, issued, revoked, clock, projects,
                   api_keys, endpoints, buckets, logs, sess, ingested, calls, ticks>>

NextPaths == Canonicalize \/ Recanonicalize

SpecPaths == InitPaths /\ [][NextPaths]_vars

----------------------------------------------------------------------------
\* Properties

AllIdle == \A s \in Sessions : sess[s].pc = "idle"

\* the endpoint rows of a (project, method, pattern) triple
TripleEndpoints(project_id, method, pattern) ==
    FindEndpoint(endpoints, project_id, method, pattern)

\* C1: in every state there is at most one endpoints row per
\* (project id, method, pattern) triple.
C1_EndpointTripleUnique ==
    \A e1, e2 \in endpoints :
        (e1.project_id = e2.project_id /\ e1.method = e2.method
            /\ e1.pattern = e2.pattern) => e1.id = e2.id

\* the committed calls of a (project, method, pattern, hour) key
CommittedCalls(c) ==
    {d \in ingested : /\ d.project_id = c.project_id /\ d.method = c.method
                      /\ d.pattern = c.pattern /\ d.hour = c.hour}

\* the request_count recorded for a key: summed over the bucket rows of that
\* hour of the endpoint rows of that triple
RecordedRequests(c) ==
    LET rows == {b \in buckets :
                    /\ b.bucket_start = c.hour
                    /\ b.endpoint_id \in {e.id : e \in TripleEndpoints(c.project_id,
                                                          c.method, c.pattern)}}
    IN  SumFn([b \in rows |-> b.request_count], rows)

\* C2: once the calls for one (project, method, pattern) and hour have all
\* committed, the request_count recorded for that endpoint and hour equals the
\* number of those calls.
C2_RequestCountEqualsCalls ==
    AllIdle => \A c \in ingested :
                  RecordedRequests(c) = Cardinality(CommittedCalls(c))

\* C3: there is exactly one metric_buckets row per (endpoint id, bucket_start)
\* that received a committed fact, and every bucket_start is an hour start.
C3_OneBucketPerEndpointHour ==
    /\ \A b1, b2 \in buckets :
          (b1.endpoint_id = b2.endpoint_id /\ b1.bucket_start = b2.bucket_start)
              => b1.id = b2.id
    /\ \A b \in buckets : b.bucket_start % MinutesPerHour = 0
    /\ \A c \in ingested :
          \E b \in buckets :
             /\ b.bucket_start = c.hour
             /\ b.endpoint_id \in {e.id : e \in TripleEndpoints(c.project_id,
                                                   c.method, c.pattern)}

\* C4: every ingest_traffic call that passed the shared-secret check answers
\* with a success-class response saying "ingested" or "error_ignored".
C4_IngestionNeverFails ==
    (out.op = "ingest" /\ out.status_code # 401)
        => /\ out.status_code \in 200..299
           /\ out.status \in {"ingested", "error_ignored"}

\* the rows of the three tables carry the ids of committed calls only
RowsOfCommittedCalls ==
    \A r \in endpoints \cup buckets \cup logs : r.id \in {c.call : c \in ingested}

\* C5: a step of a call that does not end in a successful commit, a failing
\* step included, leaves the endpoints, metric_buckets and traffic_logs rows as
\* they are, and no row of a failed call is in the tables.
C5_FailedCallLeavesNoTrace ==
    /\ [][(db' # db) => (out'.op = "ingest" /\ out'.status = "ingested")]_vars
    /\ []RowsOfCommittedCalls

\* a call that had flushed a new endpoint row failed at commit
C5_Witness ==
    /\ out.op = "ingest" /\ out.status_code = 500 /\ out.failed = "commit"
    /\ calls = 1
    /\ endpoints = {} /\ buckets = {} /\ logs = {}

\* the pattern the code takes for a fact: the supplied endpoint when it is
\* not empty, else the raw path
SuppliedOrRaw(fact) ==
    IF fact.endpoint = NoString THEN fact.path ELSE fact.endpoint

\* the endpoint row, the bucket row and the log row a committed call wrote
\* are keyed by pattern p
KeyedBy(c, p) ==
    /\ c.pattern = p
    /\ \E l \in logs : l.id = c.call /\ l.endpoint = p /\ l.path = c.fact.path
    /\ \E e \in endpoints :
          /\ e.project_id = c.fact.project_id /\ e.method = c.fact.method
          /\ e.pattern = p
          /\ \E b \in buckets : b.endpoint_id = e.id /\ b.bucket_start = c.hour

C7_UnresolvedKeyStillIngested ==
    /\ (out.op = "ingest" /\ out.failed = "key") => out.status = "ingested"
    /\ \A c \in ingested :
          (c.fact.api_key_hash # None
              /\ ~\E k \in api_keys : k.key_hash = c.fact.api_key_hash)
            => \E l \in logs : l.id = c.call /\ l.api_key_id = None

\* the counters of the bucket row with the given id, zero when there is none
BucketCounters(rows, id) ==
    IF \E b \in rows : b.id = id THEN CHOOSE b \in rows : b.id = id
    ELSE NewBucket(id, None, 0)

\* C8: each committed fact changes its bucket row by exactly request_count +1,
\* latency_sum + latency_ms, error_count +1 iff status_code >= 400,
\* throttled_count +1 iff THROTTLE, blocked_count +1 iff BLOCK.
C8_CommitAppliesExactDeltas ==
    [][\A s \in Sessions :
          (sess[s].pc = "commit" /\ sess'[s].pc = "idle"
              /\ out'.op = "ingest" /\ out'.status = "ingested")
          => LET f == sess[s].fact
                 old == BucketCounters(buckets, sess[s].bucket.id)
                 new == BucketCounters(buckets', sess[s].bucket.id)
             IN  /\ new.request_count = old.request_count + 1
                 /\ new.latency_sum = old.latency_sum + f.latency_ms
                 /\ new.error_count = old.error_count
                        + (IF f.status_code >= 400 THEN 1 ELSE 0)
                 /\ new.throttled_count = old.throttled_count
                        + (IF f.decision = "THROTTLE" THEN 1 ELSE 0)
                 /\ new.blocked_count = old.blocked_count
                        + (IF f.decision = "BLOCK" THEN 1 ELSE 0)]_vars


\* the analysis answered without an internal error
Analyzed == out.op = "analysis" /\ out.failed = None

\* C9: the analysis of a project returns exactly one result per endpoints row
\* of the project, one for each of two rows that differ in method only, and
\* none for an identity that is no registered endpoint.
C9_OneResultPerEndpoint ==
    Analyzed =>
        /\ Cardinality(out.endpoints) = Cardinality(ProjectEndpoints(out.project_id))
        /\ \A r \in out.endpoints :
              \E e \in ProjectEndpoints(out.project_id) : e.pattern = r.endpoint
        /\ \A e \in ProjectEndpoints(out.project_id) :
              \E r \in out.endpoints : r.endpoint = e.pattern

\* the traffic_logs rows of the current window of one registered endpoint
EndpointCurrentRows(e, now) ==
    {l \in CurrentRows(e.project_id, now) :
        l.method = e.method /\ l.endpoint = e.pattern}

\* C10: a registered endpoint with no request in the current window appears
\* in the result with severity NORMAL, color green and "No active traffic.".
C10_IdleEndpointIsNormal ==
    Analyzed =>
        \A e \in ProjectEndpoints(out.project_id) :
            EndpointCurrentRows(e, out.generated_at) = {}
                => \E r \in out.endpoints :
                      /\ r.endpoint = e.pattern
                      /\ r.severity = "NORMAL"
                      /\ r.color = "green"
                      /\ r.summary = "No active traffic."

\* the statistics of a classified endpoint and its result
Classified == out.op = "classify"

\* throttle_rate > 0.10
ThrottleOver == args.stats.requests > 0
                /\ args.stats.throttled * 10 > args.stats.requests

\* multiplier >= m and current_rpm > rpm, the multiplier being current_rpm over
\* the baseline the result reports
TrafficOver(m, rpm) ==
    /\ args.stats.requests * out.result.baseline[2]
          >= m * 5 * out.result.baseline[1]
    /\ args.stats.requests > rpm * 5

\* avg_risk >= 0.70
RiskOver == args.stats.avg_risk[1] * 100 >= 70 * args.stats.avg_risk[2]

\* severity, color and summary of the result
Verdict == <<out.result.severity, out.result.color, out.result.summary>>

\* C11: an endpoint whose throttle_rate is above 0.10 is classified HIGH, red,
\* with the high-throttling note, whatever its traffic and risk score are.
C11_ThrottleIsHigh ==
    (Classified /\ ThrottleOver)
        => Verdict = <<"HIGH", "red", "High throttling detected.">>

\* a throttled endpoint with a high risk score and a traffic spike
C11_Witness ==
    /\ Classified /\ ThrottleOver /\ RiskOver /\ TrafficOver(4, 10)
    /\ out.result.severity = "HIGH"

\* C12: the verdict is that of the first rule that matches, in the order
\* throttle, traffic spike, risk, elevated traffic, no traffic, normal.
C12_FirstMatchingRule ==
    Classified =>
        Verdict =
            IF ThrottleOver THEN <<"HIGH", "red", "High throttling detected.">>
            ELSE IF TrafficOver(4, 10) THEN <<"HIGH", "red", "Traffic spike detected.">>
            ELSE IF RiskOver THEN <<"WATCH", "yellow", "Elevated risk scores.">>
            ELSE IF TrafficOver(2, 5) THEN <<"WATCH", "yellow", "Traffic elevated.">>
            ELSE IF args.stats.requests = 0
                 THEN <<"NORMAL", "green", "No active traffic.">>
            ELSE <<"NORMAL", "green", "Traffic within normal range.">>

\* current_rpm 50 on a baseline of 10 rpm with avg_risk 0: a traffic spike
C12_Witness ==
    /\ Classified
    /\ args.stats.requests = 250 /\ args.stats.throttled = 0
    /\ args.stats.avg_risk = <<0, 1>>
    /\ args.base_rpm = <<4200, MinutesInTod>>
    /\ Verdict = <<"HIGH", "red", "Traffic spike detected.">>

\* C13: an analysis that fails answers 200 with an empty endpoint list and a
\* generated_at taken when it failed.
C13_FailureGivesEmptyFreshResponse ==
    (out.op = "analysis" /\ out.failed # None)
        => /\ out.status_code = 200
           /\ out.endpoints = {}
           /\ out.generated_at = clock

\* an analysis of a project with endpoints failed after the clock had advanced
C13_Witness ==
    /\ out.op = "analysis" /\ out.failed = "error"
    /\ ProjectEndpoints(out.project_id) # {}
    /\ ticks > 0
    /\ out.endpoints = {} /\ out.generated_at = clock

\* the requests being handled all carried the configured secret
HandledWithSecret ==
    \A s \in Sessions : sess[s].pc # "idle" => sess[s].secret = GoodSecret

\* a configuration request with another secret is answered 401 with no
\* project configuration
ConfigNeedsSecret ==
    (out.op = "config" /\ out.secret # GoodSecret)
        => (out.status_code = 401 /\ "projects" \notin DOMAIN out)

\* C14: a request with a wrong secret is answered 401 before any handler step:
\* no handler runs for it, the step that answers 401 changes no row and no
\* session, and the answer holds no project configuration.
C14_WrongSecretRejectedAtBoundary ==
    /\ []HandledWithSecret
    /\ []ConfigNeedsSecret
    /\ [][(out'.op \in {"ingest", "config"} /\ out'.status_code = 401)
            => (db' = db /\ sess' = sess /\ "projects" \notin DOMAIN out')]_vars

\* an ingestion request is rejected while the tables hold rows and another
\* call is in progress
C14_Witness ==
    /\ out.op = "ingest" /\ out.status_code = 401
    /\ endpoints # {}
    /\ \E s \in Sessions : sess[s].pc # "idle"

\* the worker configuration was returned
Configured == out.op = "config" /\ out.status_code = 200

\* the hostnames of the verified domains of a project
VerifiedHostnames(project_id) ==
    {d.hostname : d \in {d \in domains : d.project_id = project_id /\ d.verified}}

\* the hashes of the active keys of a project
ActiveHashes(project_id) ==
    {k.key_hash : k \in {k \in api_keys : k.project_id = project_id /\ k.is_active}}

\* the response has one entry per project, with exactly its verified
\* hostnames and active key hashes, and none of the revoked hashes
ConfigIsExact ==
    Configured =>
        /\ Cardinality(out.projects) = Cardinality(projects)
        /\ \A p \in projects : \E e \in out.projects : e.id = p.id
        /\ \A e \in out.projects :
              /\ \E p \in projects : p.id = e.id
              /\ e.domains = VerifiedHostnames(e.id)
              /\ e.api_keys = ActiveHashes(e.id)
              /\ e.api_keys \cap revoked = {}

\* a key that has been revoked is not active
RevokedStaysInactive ==
    \A k \in api_keys : k.key_hash \in revoked => ~k.is_active

\* C15: every worker-config response has one entry per project with exactly
\* the verified hostnames and active key hashes of the project; the hash of a
\* revoked key is in no later response, and a revoked key is never active again.
C15_ConfigListsActiveKeysOnly ==
    /\ []ConfigIsExact
    /\ []RevokedStaysInactive
    /\ [][\A k \in api_keys : ~k.is_active =>
             \A j \in api_keys' : j.id = k.id => ~j.is_active]_vars

\* a configuration fetched after one key of a project was revoked and while
\* another key of the project is active
C15_Witness ==
    /\ Configured
    /\ \E k \in api_keys : ~k.is_active /\ k.key_hash \in revoked
          /\ \E e \in out.projects :
                /\ e.id = k.project_id
                /\ e.api_keys # {}
                /\ e.domains # {}

\* a call of normalize_path has returned
Canonicalized == out.op = "normalize_path"

\* C16: path canonicalization is idempotent: normalize_path applied to a
\* pattern normalize_path has returned gives that pattern back, for every
\* path (two calls on one path give one pattern, the function keeping no
\* state).
C16_CanonicalizationIdempotent ==
    (Canonicalized /\ out.calls = 2) => out.pattern = out.path

Letters ==
    {"a", "b", "c", "d", "e", "f", "g", "h", "i", "j", "k", "l", "m", "n", "o",
     "p", "q", "r", "s", "t", "u", "v", "w", "x", "y", "z",
     "A", "B", "C", "D", "E", "F", "G", "H", "I", "J", "K", "L", "M", "N", "O",
     "P", "Q", "R", "S", "T", "U", "V", "W", "X", "Y", "Z"}

\* the segment as a whole is an identifier: a 36-character UUID, a
\* 24-character hexadecimal string, all digits, or alphanumeric with at
\* least 20 characters
IsIdSegment(seg) ==
    \/ Len(seg) = UuidLen /\ UuidAt(seg, 1)
    \/ Len(seg) = ObjectIdLen /\ ObjectIdAt(seg, 1)
    \/ IsDigit(seg)
    \/ Len(seg) >= 20 /\ \A k \in 1..Len(seg) : seg[k] \in Digits \cup Letters

\* the path with every identifier segment replaced by the placeholder and
\* every other segment verbatim
SegmentwisePattern(path) ==
    LET parts == SplitSlash(path)
    IN  JoinSlash([k \in 1..Len(parts) |->
                      IF IsIdSegment(parts[k]) THEN IdPlaceholder ELSE parts[k]])

\* C17: the canonical pattern has the segments of the input, each one the
\* placeholder if the whole segment is a UUID, a 24-character hexadecimal
\* string, all digits or alphanumeric with at least 20 characters, and the
\* input segment verbatim otherwise; no segment is partly rewritten.
C17_SegmentsRewrittenWhole ==
    Canonicalized => out.pattern = SegmentwisePattern(out.path)

\* the raw keys generate_api_key has returned so far
RawKeysIssued == {generate_api_key(n) : n \in 1..issued}

\* the strings a response carries
ResponseStrings ==
    IF out.op = "create_key" /\ out.status_code = 201
        THEN {out.id, out.label, out.api_key}
    ELSE IF out.op = "list_keys" /\ out.status_code = 200
        THEN UNION {{k.id, k.label} : k \in out.keys}
    ELSE IF out.op = "config" /\ out.status_code = 200
        THEN UNION {{p.id, p.upstream_url} \cup p.domains \cup p.api_keys :
                    p \in out.projects}
    ELSE IF "detail" \in DOMAIN out THEN {out.detail}
    ELSE {}

\* the strings an APIKey row stores
RowStrings(k) == {k.id, k.project_id, k.key_hash, k.label}

\* a response with a raw key in it is the response of the create_api_key
\* call that generated that key, and carries no other raw key
RawKeyOnlyAtCreation ==
    (ResponseStrings \cap RawKeysIssued # {}) =>
        /\ out.op = "create_key" /\ out.status_code = 201
        /\ ResponseStrings \cap RawKeysIssued = {generate_api_key(issued)}
        /\ out.api_key = generate_api_key(issued)

\* no row stores a raw key, and a row's key_hash is the digest of the key
\* issued with the row (k1 is the key of the seed data)
RowsHoldHashOnly ==
    \A k \in api_keys :
        /\ RowStrings(k) \cap RawKeysIssued = {}
        /\ \/ k.id = "k1" /\ k.key_hash = "h1"
           \/ \E n \in 1..issued :
                 k.id = KeyTable[n].id /\ k.key_hash = hash_api_key(generate_api_key(n))

\* C18: the raw API key is returned only in the response of the
\* create_api_key call that made it; the responses of list_api_keys and of
\* the worker configuration carry no raw key, and the stored key record
\* holds the SHA-256 hash of the key and not the key.
C18_RawKeyReturnedOnce == RawKeyOnlyAtCreation /\ RowsHoldHashOnly

\* a key was created and its row is listed afterwards
C18_Witness ==
    /\ issued >= 1
    /\ out.op = "list_keys" /\ out.status_code = 200
    /\ \E k \in out.keys : k.id = KeyTable[1].id

\* risk score x 100 rounded to the nearest integer, the risk score being in
\* thousandths
RoundedRisk(risk_score) == (risk_score + 5) \div 10

\* what the claim has a fact add to risk_score_sum and store on the log row
ExpectedRisk(fact) ==
    IF fact.risk_score = NoValue THEN NoValue ELSE RoundedRisk(fact.risk_score)

\* the risk_score_sum recorded for a key, summed as RecordedRequests sums
RecordedRiskSum(c) ==
    LET rows == {b \in buckets :
                    /\ b.bucket_start = c.hour
                    /\ b.endpoint_id \in {e.id : e \in TripleEndpoints(c.project_id,
                                                          c.method, c.pattern)}}
    IN  SumFn([b \in rows |-> b.risk_score_sum], rows)

\* C19: a committed fact with risk score r adds r x 100 rounded to the
\* nearest integer to its bucket's risk_score_sum and stores the same value
\* on its log row; a fact without risk score leaves risk_score_sum as it
\* was.  Stated for the log row of every committed call and for the bucket
\* of a key that has received one call only.
C19_RiskSumGrowsByRoundedScore ==
    \A c \in ingested :
        /\ \A l \in logs : l.id = c.call => l.risk_score = ExpectedRisk(c.fact)
        /\ (AllIdle /\ CommittedCalls(c) = {c}) =>
              RecordedRiskSum(c) =
                 IF c.fact.risk_score = NoValue THEN 0 ELSE ExpectedRisk(c.fact)

\* the fields of a fact a log row is to carry, with the timestamp
FactColumns ==
    {"project_id", "method", "path", "ip", "user_agent", "risk_score",
     "decision", "status_code", "latency_ms", "timestamp"}

\* the handler has given row l the values of committed call c: raw path,
\* pattern, key identity or null, the fact's fields, and the supplied
\* timestamp or the time of ingestion
LogWrittenFor(c, l) ==
    /\ l.path = c.fact.path
    /\ l.endpoint = c.pattern
    /\ l.api_key_id \in (IF c.fact.api_key_hash = None THEN {None}
                         ELSE KeyLookup(api_keys, c.fact.api_key_hash))
    /\ \A f \in FactColumns \ {"risk_score", "timestamp"} : l[f] = c.fact[f]
    /\ l.risk_score = IF c.fact.risk_score = NoValue THEN NoValue
                      ELSE ScaledRisk(c.fact.risk_score)
    /\ l.timestamp = IF c.fact.timestamp # NoValue THEN c.fact.timestamp
                     ELSE c.now

\* every committed call has one log row of its own, written with its
\* endpoint and bucket, and every log row is the row of a committed call
OneLogPerCommit ==
    /\ \A c \in ingested :
          /\ Cardinality({l \in logs : l.id = c.call}) = 1
          /\ KeyedBy(c, c.pattern)
          /\ \A l \in logs : l.id = c.call => LogWrittenFor(c, l)
    /\ \A l \in logs : \E c \in ingested : c.call = l.id

\* table traffic_logs keeps the fact's fields and the timestamp of every row
LogKeepsFactColumns ==
    \A l \in logs : FactColumns \subseteq DOMAIN StoredLog(l)

LastSeenNotBeforeFirstSeen ==
    \A e \in endpoints : e.last_seen_at >= e.first_seen_at

\* a step leaves first_seen_at of every row it keeps as it was
FirstSeenKept ==
    \A e \in endpoints : \A f \in endpoints' :
        f.id = e.id => f.first_seen_at = e.first_seen_at

\* a step that commits a call leaves the call's endpoint row with last_seen_at
\* at the call's ingestion time, and with first_seen_at at that time too if
\* the call created the row
LastSeenSetByCommit ==
    \A s \in Sessions :
        (sess[s].pc = "commit" /\ sess'[s].pc = "idle" /\ ingested' # ingested)
            => \E e \in endpoints' :
                  /\ e.id = sess[s].endpoint.id
                  /\ e.last_seen_at = sess[s].now
                  /\ sess[s].endpoint_new => e.first_seen_at = sess[s].now

\* C21: first_seen_at of an endpoints row is set when the row is created and
\* never changes; every later committed fact of the triple sets last_seen_at
\* to its ingestion time; last_seen_at >= first_seen_at in every state.
C21_FirstSeenFixedLastSeenFollows ==
    /\ []LastSeenNotBeforeFirstSeen
    /\ [][FirstSeenKept /\ LastSeenSetByCommit]_vars

\* a row that a later fact has touched at a later time than its creation
C21_Witness ==
    \E e \in endpoints :
        /\ e.last_seen_at > e.first_seen_at
        /\ \E c, d \in ingested :
              /\ c.call # d.call
              /\ c.now = e.first_seen_at /\ d.now = e.last_seen_at
              /\ c.pattern = e.pattern /\ d.pattern = e.pattern

\* a step lowers no counter of a metric_buckets row it keeps
CountersKept ==
    \A b \in buckets : \A d \in buckets' :
        d.id = b.id => \A f \in Counters : d[f] >= b[f]

\* C22: within one bucket, request_count, error_count, latency_sum,
\* risk_score_sum, throttled_count and blocked_count never decrease from one
\* committed state to the next, whatever the interleaving of the concurrent
\* ingest_traffic calls on the bucket.
C22_CountersNeverDecrease == [][CountersKept]_vars

\* the requests of endpoint e in the buckets of the last seven days whose
\* hour of day is in hours
BucketTotal(e, now, hours) ==
    LET rows == {b \in buckets : /\ b.endpoint_id = e.id
                                 /\ b.bucket_start >= now - MinutesIn7d
                                 /\ HourOfDay(b.bucket_start) \in hours}
    IN  SumFn([b \in rows |-> b.request_count], rows)

\* the baseline of endpoint e as the claim has it: the rate of the same hour
\* of day if it is above zero, the rate of the seven days otherwise, and 0.1
\* at least
ClaimedBaseline(e, now) ==
    LET tod == BucketTotal(e, now, {HourOfDay(now)})
        week == BucketTotal(e, now, 0..(HoursPerDay - 1))
        selected == IF tod > 0 THEN <<tod, MinutesInTod>>
                    ELSE <<week, MinutesIn7d>>
    IN  IF selected[1] * 10 < selected[2] THEN <<1, 10>> ELSE selected

\* two fractions of equal value
SameRate(a, b) == a[1] * b[2] = b[1] * a[2]

\* the baseline of every result is 0.1 at least
BaselineFloored ==
    Analyzed => \A r \in out.endpoints :
                   r.baseline[2] > 0 /\ r.baseline[1] * 10 >= r.baseline[2]

\* the result for the pattern of endpoint e carries the baseline of e
BaselineOf(e) ==
    \A r \in out.endpoints :
        r.endpoint = e.pattern
            => SameRate(r.baseline, ClaimedBaseline(e, out.generated_at))

\* the claim for the endpoints that share their pattern with no other
BaselineOfLoneEndpoints ==
    Analyzed =>
        \A e \in ProjectEndpoints(out.project_id) :
            (\A d \in ProjectEndpoints(out.project_id) :
                d.pattern = e.pattern => d = e) => BaselineOf(e)

\* C23: for every endpoint the baseline of the analysis is the rate of the
\* same hour of day over seven days when that rate is above zero and the
\* rate of all hours of the seven days otherwise, floored at 0.1 requests
\* per minute; the baseline is 0.1 at least.
C23_BaselineSelectedAndFloored ==
    /\ BaselineFloored
    /\ Analyzed => \A e \in ProjectEndpoints(out.project_id) : BaselineOf(e)

\* the traffic_logs rows of the current window counted under a pattern
PatternRows(project_id, now, pattern) ==
    {l \in CurrentRows(project_id, now) :
        GroupPattern(project_id, <<l.endpoint_id, l.endpoint>>) = pattern}

\* the sum of the stored risk scores of a set of rows, in hundredths
StoredRiskSum(rows) ==
    SumFn([l \in rows |-> IF l.risk_score # NoValue THEN l.risk_score ELSE 0], rows)

\* avg_risk on the scale 0.0 to 1.0 is 0.7 at least: the stored sum, divided
\* by the number of requests and by 100, against 7/10
RiskElevated(rows) ==
    rows # {} /\ StoredRiskSum(rows) * 10 >= 7 * 100 * Cardinality(rows)

\* C24: the avg_risk compared with 0.70 is on the scale 0.0 to 1.0, the sum
\* of the stored integer-scaled risk scores divided by the request count and
\* by 100; an endpoint is WATCH for elevated risk only if that average is
\* 0.70 at least, so never on facts with risk score 0.5 or less.
C24_AvgRiskOnUnitScale ==
    Analyzed =>
        \A r \in out.endpoints :
            r.summary = "Elevated risk scores."
                => RiskElevated(PatternRows(out.project_id, out.generated_at,
                                            r.endpoint))

\* the step is the commit of an ingest_traffic call
CommitStep == ingested' # ingested

\* the step is an analysis step
AnalysisStep == analysis' # analysis \/ out'.op = "analysis"

\* an analysis step leaves the three tables as they are
AnalysisReadsOnly == AnalysisStep => UNCHANGED <<endpoints, buckets, logs>>

\* a row of the three tables that is new or changed comes from a commit of
\* ingest_traffic
OnlyIngestionWrites ==
    (\/ endpoints' \ endpoints # {}
     \/ buckets' \ buckets # {}
     \/ {l.id : l \in logs'} \ {l.id : l \in logs} # {}) => CommitStep

\* a traffic_logs row stays as it is unless its project is deleted
LogRowsKept ==
    \A l \in logs :
        l \in logs' \/ l.project_id \notin {p.id : p \in projects'}

\* C25: only a committed ingest_traffic call creates or changes endpoints
\* and metric_buckets rows and adds traffic_logs rows; the analysis leaves
\* the three tables unchanged, also interleaved with ingestion; a
\* traffic_logs row is never modified or removed by an operation other than
\* the deletion of its project.
C25_OnlyIngestionWritesLogsImmutable ==
    [][AnalysisReadsOnly /\ OnlyIngestionWrites /\ LogRowsKept]_vars

\* the key a traffic_logs row refers to is a key of the row's project
KeyOfSameProject(l) ==
    l.api_key_id # None =>
        \E k \in api_keys : k.id = l.api_key_id /\ k.project_id = l.project_id

\* C29: the API key a traffic_logs row refers to is always a key of the
\* project of the row; a fact for one project whose fingerprint matches a key
\* of another project is recorded with a null key reference.
C29_LogKeyIsOfSameProject == \A l \in logs : KeyOfSameProject(l)

\* C26: an analysis request for a project that does not exist or belongs to
\* another user is answered with 404 "Project not found", as the key, domain
\* and project operations answer it, and never with an analysis response.
C26_AnalysisOfForeignProjectIs404 ==
    (out.op = "analysis" /\ ~OwnsProject(out.user, out.project_id))
        => /\ out.status_code = 404
           /\ "endpoints" \notin DOMAIN out

\* C27: in every state and for every bucket, error_count <= request_count
\* and throttled_count + blocked_count <= request_count, and a bucket that
\* exists has request_count >= 1.
C27_CountersWithinRequests ==
    \A b \in buckets :
        /\ b.error_count <= b.request_count
        /\ b.throttled_count + b.blocked_count <= b.request_count
        /\ b.request_count >= 1

\* the sum of request_count over the buckets of a set of endpoints rows
RequestsOf(rows) ==
    LET held == {b \in buckets : b.endpoint_id \in {e.id : e \in rows}}
    IN  SumFn([b \in held |-> b.request_count], held)

\* C28: for every project the number of traffic_logs rows equals the sum of
\* request_count over the buckets of the project's endpoints, and for every
\* endpoint the number of log rows with its method and pattern equals the
\* sum of request_count over its buckets.
C28_LogRowsMatchRequestCounts ==
    /\ \A p \in ProjectIds :
          Cardinality({l \in logs : l.project_id = p})
              = RequestsOf(ProjectEndpoints(p))
    /\ \A e \in endpoints :
          Cardinality({l \in logs : /\ l.project_id = e.project_id
                                    /\ l.method = e.method
                                    /\ l.endpoint = e.pattern})
              = RequestsOf({e})

====
